---------------------------- MODULE Spec2Model ----------------------------
(***************************************************************************)
(* Fake-Job-Detector (src/app.py): one Flask route that scores job text    *)
(* against a fixed phrase list and attaches a cached explanation obtained  *)
(* from an external language model.                                        *)
(*                                                                         *)
(* Text is modelled as TLA+ strings, character by character.  The two      *)
(* external services (OCR, language model) are nondeterministic: each call *)
(* either fails or answers with one of a few responses.  The greeting      *)
(* (src/app.py:84-92) reads only the clock and is passed straight to the   *)
(* template; it is left out.                                               *)
(*                                                                         *)
(* Spec      - requests served one at a time, each handler run whole.      *)
(* SpecConc  - requests served by threads that interleave at the accesses  *)
(*             to the shared cache.                                        *)
(***************************************************************************)
EXTENDS Integers, Sequences, FiniteSets, TLC

VARIABLES
    ai_cache,   \* the process-wide dict: cache key -> explanation
    gen_log,    \* history: every call of ai_explanation, in order
    request,    \* Spec: the request served last
    response,   \* Spec: what that request ended with
    last,       \* Spec: what the handler did while serving it
    served,     \* Spec: history of the results returned: the text[:120] and the ai of each
    nreq,       \* number of requests started
    pc,         \* SpecConc: each thread's position in index()
    loc         \* SpecConc: each thread's local variables

vars == <<ai_cache, gen_log, request, response, last, served, nreq, pc, loc>>

---------------------------------------------------------------------------
(* Bounds *)

MaxRequests == 2

MaxConcRequests == 2

NumThreads == 2

---------------------------------------------------------------------------
(* Strings *)

Whitespace == {" ", "\t", "\n", "\r"}

UpperAlphabet == "ABCDEFGHIJKLMNOPQRSTUVWXYZ"

LowerAlphabet == "abcdefghijklmnopqrstuvwxyz"

CharAt(s, i) == SubSeq(s, i, i)

\* str.lower() on one character
LowerChar(c) ==
    IF \E i \in 1..Len(UpperAlphabet) : CharAt(UpperAlphabet, i) = c
    THEN CharAt(LowerAlphabet, CHOOSE i \in 1..Len(UpperAlphabet) : CharAt(UpperAlphabet, i) = c)
    ELSE c

RECURSIVE Lower(_)
\* str.lower(), the string split in halves
Lower(s) ==
    IF Len(s) = 0 THEN ""
    ELSE IF Len(s) = 1 THEN LowerChar(s)
    ELSE Lower(SubSeq(s, 1, Len(s) \div 2)) \o Lower(SubSeq(s, Len(s) \div 2 + 1, Len(s)))

\* str.strip(): from the first to the last character that is not whitespace
Strip(s) ==
    IF s = "" THEN ""
    ELSE IF CharAt(s, 1) \notin Whitespace /\ CharAt(s, Len(s)) \notin Whitespace THEN s
    ELSE LET solid == {i \in 1..Len(s) : CharAt(s, i) \notin Whitespace} IN
         IF solid = {} THEN ""
         ELSE SubSeq(s, CHOOSE i \in solid : \A j \in solid : i <= j,
                        CHOOSE i \in solid : \A j \in solid : j <= i)

\* `p in t` for strings
Contains(t, p) ==
    \E i \in 1..(Len(t) - Len(p) + 1) : SubSeq(t, i, i + Len(p) - 1) = p

\* t[:n]
Prefix(t, n) == SubSeq(t, 1, IF Len(t) < n THEN Len(t) ELSE n)

RECURSIVE Join(_, _)
\* sep.join(parts)
Join(parts, sep) ==
    IF parts = <<>> THEN ""
    ELSE IF Len(parts) = 1 THEN parts[1]
    ELSE parts[1] \o sep \o Join(Tail(parts), sep)

RECURSIVE ReplaceMarker(_)
\* s.replace("###", ""): occurrences are found left to right and do not overlap
ReplaceMarker(s) ==
    LET at == {i \in 1..(Len(s) - 2) : SubSeq(s, i, i + 2) = "###"} IN
    IF at = {} THEN s
    ELSE LET first == CHOOSE i \in at : \A j \in at : i <= j IN
         SubSeq(s, 1, first - 1) \o ReplaceMarker(SubSeq(s, first + 3, Len(s)))

RECURSIVE Rep(_, _)
Rep(s, n) == IF n = 0 THEN "" ELSE s \o Rep(s, n - 1)

\* a call that returns v / a call that raises
Return(v) == [raised |-> FALSE, value |-> v]

Raise(e) == [raised |-> TRUE, value |-> e]

---------------------------------------------------------------------------
(* Data *)

suspicious_phrases ==
    << "registration fee", "application fee", "training fee", "deposit", "pay",
       "apply immediately", "limited seats", "urgent hiring",
       "no interview", "guaranteed placement",
       "work from home", "whatsapp", "telegram" >>

risk_tips ==
    "registration fee" :> "Genuine companies do not ask for fees." @@
    "limited seats" :> "Fake jobs create urgency." @@
    "whatsapp" :> "Hiring via WhatsApp is suspicious." @@
    "telegram" :> "Telegram recruitment is risky." @@
    "no interview" :> "Skipping interviews is a red flag."

\* the slice text[:120]
PrefixLen == 120

\* hashlib.sha256(...).hexdigest(), taken to be collision free
Sha256(s) == <<"sha256", s>>

cache_key(text) == Sha256(Lower(Strip(text)))

---------------------------------------------------------------------------
(* The Text Extractor *)

\* variant: the `.lower()` of line 35 is missing
extract_text_from_image_NoLower(ocr) ==
    IF ocr.status = "fail" THEN Raise("RequestException")
    ELSE LET data == ocr.json IN
         IF "ParsedResults" \in DOMAIN data /\ data.ParsedResults # <<>>
         THEN IF "ParsedText" \in DOMAIN data.ParsedResults[1]
              THEN Return(data.ParsedResults[1].ParsedText)
              ELSE Raise("KeyError")
         ELSE Return("")

\* requests.post(...) failed, or response.json() is `data`
extract_text_from_image(ocr) ==
    IF ocr.status = "fail" THEN Raise("RequestException")
    ELSE LET data == ocr.json IN
         IF "ParsedResults" \in DOMAIN data /\ data.ParsedResults # <<>>
         THEN IF "ParsedText" \in DOMAIN data.ParsedResults[1]
              THEN Return(Lower(data.ParsedResults[1].ParsedText))
              ELSE Raise("KeyError")
         ELSE Return("")

---------------------------------------------------------------------------
(* The Risk Scorer *)

RECURSIVE ScanPhrases_SkipsLast(_, _, _, _)
\* variant: the loop stops one phrase early
ScanPhrases_SkipsLast(text, i, score, reasons) ==
    IF i >= Len(suspicious_phrases) THEN [score |-> score, reasons |-> reasons]
    ELSE IF Contains(text, suspicious_phrases[i])
         THEN ScanPhrases_SkipsLast(text, i + 1, score + 1, Append(reasons, suspicious_phrases[i]))
         ELSE ScanPhrases_SkipsLast(text, i + 1, score, reasons)

RECURSIVE ScanPhrases(_, _, _, _)
\* the loop `for phrase in suspicious_phrases`, from the i-th phrase on
ScanPhrases(text, i, score, reasons) ==
    IF i > Len(suspicious_phrases) THEN [score |-> score, reasons |-> reasons]
    ELSE IF Contains(text, suspicious_phrases[i])
         THEN ScanPhrases(text, i + 1, score + 1, Append(reasons, suspicious_phrases[i]))
         ELSE ScanPhrases(text, i + 1, score, reasons)

\* variant: `score < 2` for `score <= 2`
RiskOf_TwoIsHigh(score) ==
    IF score = 0
    THEN [risk |-> "LOW RISK", meter |-> 20, trust |-> 85, cls |-> "low"]
    ELSE IF score < 2
         THEN [risk |-> "MEDIUM RISK", meter |-> 60, trust |-> 55, cls |-> "medium"]
         ELSE [risk |-> "HIGH RISK", meter |-> 90, trust |-> 20, cls |-> "high"]

RiskOf(score) ==
    IF score = 0
    THEN [risk |-> "LOW RISK", meter |-> 20, trust |-> 85, cls |-> "low"]
    ELSE IF score <= 2
         THEN [risk |-> "MEDIUM RISK", meter |-> 60, trust |-> 55, cls |-> "medium"]
         ELSE [risk |-> "HIGH RISK", meter |-> 90, trust |-> 20, cls |-> "high"]

---------------------------------------------------------------------------
(* The Explanation Generator *)

\* the f-string; the bullet characters of the fixed tail are written "*"
PromptOf(risk, reasons) ==
    "\nRisk Level: " \o risk \o
    "\nSuspicious indicators: " \o
    (IF reasons # <<>> THEN Join(reasons, ", ") ELSE "None") \o
    "\n\nExplain simply:\n* Why this job is risky\n* What students should check\n* One safety tip\n"

\* `llm` is what client.chat.completions.create does with the prompt
ai_explanation(text, risk, reasons, llm) ==
    IF llm.status = "fail" THEN Raise("APIError")
    ELSE Return(Strip(ReplaceMarker(llm.content)))

\* the history entry of one generator call
GenCall(key, text, risk, reasons, out) ==
    [key |-> key, text |-> text, risk |-> risk, reasons |-> reasons,
     prompt |-> PromptOf(risk, reasons), out |-> out]

---------------------------------------------------------------------------
(* What a request can carry and what the external services can answer *)

\* 120 characters, none of the phrases
LongAd == Rep("office assistant vacancy ", 4) \o "call the hr desk now"

\* the same first 120 characters, then three of the phrases
LongScam == LongAd \o " pay the deposit on telegram"

NoFields == [f \in {} |-> ""]

\* request.form
Forms ==
    { NoFields,
      [job_text |-> " \t "],
      [job_text |-> " Software Engineer role, technical interview required "],
      [job_text |-> "Work from home, PAY weekly"],
      [job_text |-> "Pay registration fee now, apply immediately, limited seats, no interview guaranteed"],
      [job_text |-> LongAd],
      [job_text |-> LongScam] }

\* request.files
Files ==
    { NoFields,
      [job_image |-> [filename |-> "", bytes |-> ""]],
      [job_image |-> [filename |-> "job.png", bytes |-> "PNG"]] }

\* the OCR service: the transport fails, or the response's JSON
OcrResponses ==
    { [status |-> "fail"],
      [status |-> "ok", json |-> [ErrorMessage |-> "Unable to recognize the file type"]],
      [status |-> "ok", json |-> [ParsedResults |-> <<>>]],
      [status |-> "ok", json |-> [ParsedResults |-> <<[FileParseExitCode |-> "-10"]>>]],
      [status |-> "ok", json |-> [ParsedResults |-> <<[ParsedText |-> " \r\n"]>>]],
      [status |-> "ok", json |-> [ParsedResults |->
          <<[ParsedText |-> "\n WhatsApp HR today \r\n"], [ParsedText |-> "page two"]>>]] }

\* the language model: the call fails, or the completion's message content
LlmResponses ==
    { [status |-> "fail"],
      [status |-> "ok", content |-> "### Risky: asks for money. "],
      [status |-> "ok", content |-> "Looks fine.\n"] }

\* no external call was made
NotCalled == [status |-> "none"]

None == [none |-> TRUE]

\* `error = None`, kept a string like the error message
NoError == "None"

---------------------------------------------------------------------------
(* The Request Handler *)

\* request.form.get(name, "")
FormGet(form, name) == IF name \in DOMAIN form THEN form[name] ELSE ""

\* what lines 94-108 leave: the text or the exception, and the OCR answers used
Resolved(out, calls) == [raised |-> out.raised, value |-> out.value, ocr_calls |-> calls]

\* variant: the image is looked at before the text field
ResolveText_ImageFirst(form, files, ocr) ==
    IF "job_image" \in DOMAIN files /\ files.job_image.filename # ""
    THEN Resolved(extract_text_from_image(ocr), <<ocr>>)
    ELSE IF Strip(FormGet(form, "job_text")) # ""
         THEN Resolved(Return(Lower(Strip(form.job_text))), <<>>)
         ELSE Resolved(Return(""), <<>>)

\* lines 94-108; `ocr` is what the OCR service does if it is called
ResolveText(form, files, ocr) ==
    IF Strip(FormGet(form, "job_text")) # ""
    THEN Resolved(Return(Lower(Strip(form.job_text))), <<>>)
    ELSE IF "job_image" \in DOMAIN files
         THEN IF files.job_image.filename # ""
              THEN Resolved(extract_text_from_image(ocr), <<ocr>>)
              ELSE Resolved(Return(""), <<>>)
         ELSE Resolved(Return(""), <<>>)

\* variant: `not text` for `not text.strip()`
NoText_Unstripped(text) == text = ""

\* line 109: `not text.strip()`
NoText(text) == Strip(text) = ""

\* variant: the key is taken over the whole text, not text[:120]
Analyse_KeyOfWholeText(text) ==
    LET scan == ScanPhrases(text, 1, 0, <<>>)
        tier == RiskOf(scan.score)
    IN  [text |-> text, score |-> scan.score, reasons |-> scan.reasons,
         risk |-> tier.risk, meter |-> tier.meter, trust |-> tier.trust,
         cls |-> tier.cls, key |-> cache_key(text)]

\* lines 118-133: score, reasons, risk tier and cache key
Analyse(text) ==
    LET scan == ScanPhrases(text, 1, 0, <<>>)
        tier == RiskOf(scan.score)
    IN  [text |-> text, score |-> scan.score, reasons |-> scan.reasons,
         risk |-> tier.risk, meter |-> tier.meter, trust |-> tier.trust,
         cls |-> tier.cls, key |-> cache_key(Prefix(text, PrefixLen))]

\* whether the request reaches the call of extract_text_from_image
CallsOcr(form, files) == ResolveText(form, files, [status |-> "fail"]).ocr_calls # <<>>

\* a request together with the OCR answer it meets, if it calls the OCR service
Submissions ==
    {x \in Forms \X Files \X (OcrResponses \union {NotCalled}) :
        (x[3] # NotCalled) <=> CallsOcr(x[1], x[2])}

\* ResolveText, worked out once for each of them
ResolveTextOf == [x \in Submissions |-> ResolveText(x[1], x[2], x[3])] @@ <<>>

\* the texts line 109 can meet
ResolvedTexts ==
    {ResolveTextOf[x].value : x \in {y \in Submissions : ~ResolveTextOf[y].raised}}

\* NoText and Analyse, worked out once for each such text
NoTextOf == [t \in ResolvedTexts |-> NoText(t)] @@ <<>>

AnalysisOf == [t \in ResolvedTexts |-> Analyse(t)] @@ <<>>

\* lines 137-145
ResultOf(a, ai) ==
    [risk |-> a.risk, trust |-> a.trust, meter |-> a.meter, class |-> a.cls,
     reasons |-> a.reasons, tips |-> risk_tips, ai |-> ai]

\* render_template("index.html", result=..., error=...)
Page(result, error) == [kind |-> "page", result |-> result, error |-> error]

\* the exception left index(): Flask answers 500
ServerError == [kind |-> "server_error", result |-> None, error |-> NoError]

Request(method, form, files) == [method |-> method, form |-> form, files |-> files]

\* what the handler did: the text resolution, the scorer's run, the generator calls
Did(got, a, llm_calls) == [got |-> got, analysis |-> a, gen_calls |-> llm_calls]

\* the history entry of one result returned
Served(a, ai) == [text |-> Prefix(a.text, PrefixLen), ai |-> ai]

\* line 134 finds the key: lines 137-152
ServeHit(a) ==
    /\ response' = Page(ResultOf(a, ai_cache[a.key]), NoError)
    /\ served' = served \union {Served(a, ai_cache[a.key])}
    /\ UNCHANGED <<ai_cache, gen_log>>

\* variant: the slot is filled before the call and left filled when the call fails
ServeMiss_StoresOnFailure(a, llm) ==
    LET out == ai_explanation(Prefix(a.text, PrefixLen), a.risk, a.reasons, llm) IN
    /\ gen_log' = Append(gen_log,
                         GenCall(a.key, Prefix(a.text, PrefixLen), a.risk, a.reasons, out))
    /\ IF out.raised
       THEN /\ response' = ServerError
            /\ ai_cache' = (a.key :> "") @@ ai_cache
            /\ UNCHANGED served
       ELSE /\ ai_cache' = (a.key :> out.value) @@ ai_cache
            /\ response' = Page(ResultOf(a, ai_cache'[a.key]), NoError)
            /\ served' = served \union {Served(a, ai_cache'[a.key])}

\* variant: the dict is rebuilt with the new entry alone
ServeMiss_Evicts(a, llm) ==
    LET out == ai_explanation(Prefix(a.text, PrefixLen), a.risk, a.reasons, llm) IN
    /\ gen_log' = Append(gen_log,
                         GenCall(a.key, Prefix(a.text, PrefixLen), a.risk, a.reasons, out))
    /\ IF out.raised
       THEN /\ response' = ServerError
            /\ UNCHANGED <<ai_cache, served>>
       ELSE /\ ai_cache' = (a.key :> out.value)
            /\ response' = Page(ResultOf(a, ai_cache'[a.key]), NoError)
            /\ served' = served \union {Served(a, ai_cache'[a.key])}

\* line 134 does not find the key: lines 135-152
ServeMiss(a, llm) ==
    LET out == ai_explanation(Prefix(a.text, PrefixLen), a.risk, a.reasons, llm) IN
    /\ gen_log' = Append(gen_log,
                         GenCall(a.key, Prefix(a.text, PrefixLen), a.risk, a.reasons, out))
    /\ IF out.raised
       THEN /\ response' = ServerError
            /\ UNCHANGED <<ai_cache, served>>
       ELSE /\ ai_cache' = (a.key :> out.value) @@ ai_cache
            /\ response' = Page(ResultOf(a, ai_cache'[a.key]), NoError)
            /\ served' = served \union {Served(a, ai_cache'[a.key])}

\* index() on a POST
index_post(form, files, ocr) ==
    LET got == ResolveTextOf[<<form, files, ocr>>] IN
    /\ request' = Request("POST", form, files)
    /\ IF got.raised
       THEN /\ response' = ServerError
            /\ last' = Did(got, None, <<>>)
            /\ UNCHANGED <<ai_cache, gen_log, served>>
       ELSE IF NoTextOf[got.value]
       THEN /\ response' = Page(None, "No text detected from input.")
            /\ last' = Did(got, None, <<>>)
            /\ UNCHANGED <<ai_cache, gen_log, served>>
       ELSE LET a == AnalysisOf[got.value] IN
            IF a.key \in DOMAIN ai_cache
            THEN /\ ServeHit(a)
                 /\ last' = Did(got, a, <<>>)
            ELSE \E llm \in LlmResponses :
                   /\ ServeMiss(a, llm)
                   /\ last' = Did(got, a, <<llm>>)

\* index() on a GET
index_get ==
    /\ request' = Request("GET", NoFields, NoFields)
    /\ response' = Page(None, NoError)
    /\ last' = Did(None, None, <<>>)
    /\ UNCHANGED <<ai_cache, gen_log, served>>

---------------------------------------------------------------------------
(* Requests served one at a time *)

Init ==
    /\ ai_cache = <<>>
    /\ gen_log = <<>>
    /\ request = None
    /\ response = None
    /\ last = Did(None, None, <<>>)
    /\ served = {}
    /\ nreq = 0
    /\ pc = [t \in 1..NumThreads |-> "idle"]
    /\ loc = [t \in 1..NumThreads |-> None]

Get ==
    /\ nreq < MaxRequests
    /\ nreq' = nreq + 1
    /\ index_get
    /\ UNCHANGED <<pc, loc>>

Post ==
    /\ nreq < MaxRequests
    /\ nreq' = nreq + 1
    /\ \E x \in Submissions : index_post(x[1], x[2], x[3])
    /\ UNCHANGED <<pc, loc>>

Next == Get \/ Post

Spec == Init /\ [][Next]_vars

---------------------------------------------------------------------------
(* Requests served by threads.  A thread's steps are the accesses of        *)
(* index() to the shared dict, lines 134, 135 and 144, and the generator    *)
(* call between them; everything before line 134 reads only the request.    *)

Threads == 1..NumThreads

\* a thread's locals: the analysis, what the generator call returned, the response
Locals(a, out, resp) == [analysis |-> a, out |-> out, response |-> resp]

\* the requests the threads serve: text posted in the form field
ConcSubmissions == {x \in Submissions : x[2] = NoFields /\ x[3] = NotCalled}

\* variant: on a miss the slot is reserved with an empty string before the call
CBegin_ReservesSlot(t) ==
    /\ pc[t] \in {"idle", "done", "failed"}
    /\ nreq < MaxConcRequests
    /\ nreq' = nreq + 1
    /\ \E x \in ConcSubmissions :
         LET got == ResolveTextOf[x] IN
         IF got.raised
         THEN /\ pc' = [pc EXCEPT ![t] = "failed"]
              /\ loc' = [loc EXCEPT ![t] = Locals(None, None, ServerError)]
              /\ UNCHANGED ai_cache
         ELSE IF NoTextOf[got.value]
         THEN /\ pc' = [pc EXCEPT ![t] = "done"]
              /\ loc' = [loc EXCEPT ![t] =
                            Locals(None, None, Page(None, "No text detected from input."))]
              /\ UNCHANGED ai_cache
         ELSE LET a == AnalysisOf[got.value] IN
              /\ pc' = [pc EXCEPT ![t] = IF a.key \in DOMAIN ai_cache THEN "read" ELSE "call"]
              /\ loc' = [loc EXCEPT ![t] = Locals(a, None, None)]
              /\ ai_cache' = IF a.key \in DOMAIN ai_cache THEN ai_cache
                             ELSE (a.key :> "") @@ ai_cache
    /\ UNCHANGED <<gen_log, request, response, last, served>>

\* lines 93-134: a thread takes a request up to the test `key not in ai_cache`
CBegin(t) ==
    /\ pc[t] \in {"idle", "done", "failed"}
    /\ nreq < MaxConcRequests
    /\ nreq' = nreq + 1
    /\ \E x \in ConcSubmissions :
         LET got == ResolveTextOf[x] IN
         IF got.raised
         THEN /\ pc' = [pc EXCEPT ![t] = "failed"]
              /\ loc' = [loc EXCEPT ![t] = Locals(None, None, ServerError)]
         ELSE IF NoTextOf[got.value]
         THEN /\ pc' = [pc EXCEPT ![t] = "done"]
              /\ loc' = [loc EXCEPT ![t] =
                            Locals(None, None, Page(None, "No text detected from input."))]
         ELSE LET a == AnalysisOf[got.value] IN
              /\ pc' = [pc EXCEPT ![t] = IF a.key \in DOMAIN ai_cache THEN "read" ELSE "call"]
              /\ loc' = [loc EXCEPT ![t] = Locals(a, None, None)]
    /\ UNCHANGED <<ai_cache, gen_log, request, response, last, served>>

\* line 135, right-hand side: the generator call returns or raises
CCall(t) ==
    /\ pc[t] = "call"
    /\ \E llm \in LlmResponses :
         LET a == loc[t].analysis
             out == ai_explanation(Prefix(a.text, PrefixLen), a.risk, a.reasons, llm)
         IN
         /\ gen_log' = Append(gen_log,
                              GenCall(a.key, Prefix(a.text, PrefixLen), a.risk, a.reasons, out))
         /\ IF out.raised
            THEN /\ pc' = [pc EXCEPT ![t] = "failed"]
                 /\ loc' = [loc EXCEPT ![t] = Locals(a, None, ServerError)]
            ELSE /\ pc' = [pc EXCEPT ![t] = "store"]
                 /\ loc' = [loc EXCEPT ![t] = Locals(a, out, None)]
    /\ UNCHANGED <<ai_cache, request, response, last, served, nreq>>

\* line 135, the assignment ai_cache[key] = ...
CStore(t) ==
    /\ pc[t] = "store"
    /\ ai_cache' = (loc[t].analysis.key :> loc[t].out.value) @@ ai_cache
    /\ pc' = [pc EXCEPT ![t] = "read"]
    /\ UNCHANGED <<gen_log, request, response, last, served, nreq, loc>>

\* lines 137-152: the result is built, reading ai_cache[key]
CRead(t) ==
    /\ pc[t] = "read"
    /\ loc' = [loc EXCEPT ![t] =
                  Locals(loc[t].analysis, loc[t].out,
                         Page(ResultOf(loc[t].analysis, ai_cache[loc[t].analysis.key]), NoError))]
    /\ pc' = [pc EXCEPT ![t] = "done"]
    /\ UNCHANGED <<ai_cache, gen_log, request, response, last, served, nreq>>

NextConc == \E t \in Threads : CBegin(t) \/ CCall(t) \/ CStore(t) \/ CRead(t)

SpecConc == Init /\ [][NextConc]_vars

---------------------------------------------------------------------------
(* Vocabulary of the properties, stated from the inputs and not through the *)
(* handler's own operators                                                   *)

IsBlank(s) == \A i \in 1..Len(s) : CharAt(s, i) \in Whitespace

\* r is s with every upper-case letter replaced by its lower-case letter
IsLowerOf(r, s) ==
    /\ Len(r) = Len(s)
    /\ \A i \in 1..Len(s) :
         LET up == {k \in 1..Len(UpperAlphabet) : CharAt(UpperAlphabet, k) = CharAt(s, i)} IN
         IF up = {} THEN CharAt(r, i) = CharAt(s, i)
         ELSE \E k \in up : CharAt(r, i) = CharAt(LowerAlphabet, k)

\* t is s without its leading and trailing whitespace, lower-cased
IsTrimmedLowered(t, s) ==
    \E i \in 1..Len(s) :
        LET j == i + Len(t) - 1 IN
        /\ Len(t) > 0
        /\ j <= Len(s)
        /\ CharAt(s, i) \notin Whitespace
        /\ CharAt(s, j) \notin Whitespace
        /\ IsBlank(SubSeq(s, 1, i - 1))
        /\ IsBlank(SubSeq(s, j + 1, Len(s)))
        /\ IsLowerOf(t, SubSeq(s, i, j))

\* the positions in the list of the phrases that occur in the text
Matching(text) ==
    {k \in 1..Len(suspicious_phrases) : Contains(text, suspicious_phrases[k])}

MatchingOf == [t \in ResolvedTexts |-> Matching(t)] @@ <<>>

\* the (field value, text) pairs in which the text is the field trimmed and lower-cased
TrimmedLoweredPairs ==
    {x \in {FormGet(f, "job_text") : f \in Forms} \X ResolvedTexts :
        IsTrimmedLowered(x[2], x[1])}

\* the first 120 characters, normalized
NormalizedPrefixOf ==
    [t \in {Prefix(x, PrefixLen) : x \in ResolvedTexts} |-> Lower(Strip(t))] @@ <<>>

UsableImage(files) == "job_image" \in DOMAIN files /\ files.job_image.filename # ""

\* the OCR response carries a first parsed result with a text
HasParsedText(data) ==
    /\ "ParsedResults" \in DOMAIN data
    /\ Len(data.ParsedResults) >= 1
    /\ "ParsedText" \in DOMAIN data.ParsedResults[1]

\* the OCR response carries no parsed result at all
NoParsedResults(data) ==
    "ParsedResults" \notin DOMAIN data \/ Len(data.ParsedResults) = 0

\* the last request was a POST that called the OCR service
OcrCalled == request # None /\ request.method = "POST" /\ last.got.ocr_calls # <<>>

\* the last request ended with an Analysis Result
HasResult == response # None /\ response.kind = "page" /\ response.result # None

\* the calls of the generator made for the same normalized prefix as text
CallsFor(text) ==
    {i \in DOMAIN gen_log : NormalizedPrefixOf[gen_log[i].text] = NormalizedPrefixOf[text]}

---------------------------------------------------------------------------
(* Properties *)

\* C1: on every result, with n the number of listed phrases that occur in the
\* resolved text, (risk, meter, trust, class) is (LOW RISK, 20, 85, low) for
\* n = 0, (MEDIUM RISK, 60, 55, medium) for n = 1 or 2 and (HIGH RISK, 90, 20,
\* high) for n >= 3.
C1_TierByMatchCount ==
    HasResult =>
        LET n == Cardinality(MatchingOf[last.got.value])
            r == response.result
        IN  <<r.risk, r.meter, r.trust, r.class>> =
                IF n = 0 THEN <<"LOW RISK", 20, 85, "low">>
                ELSE IF n \in {1, 2} THEN <<"MEDIUM RISK", 60, 55, "medium">>
                ELSE <<"HIGH RISK", 90, 20, "high">>

\* a result for a text with exactly two phrases, the upper edge of MEDIUM
C1_Witness ==
    /\ HasResult
    /\ Cardinality(MatchingOf[last.got.value]) = 2
    /\ response.result.risk = "MEDIUM RISK"

\* C2 as stated: requests with the same normalized 120-character prefix get
\* the same explanation, and the generator is called at most once for it.
C2_CalledAtMostOnce ==
    /\ \A p, q \in served :
         NormalizedPrefixOf[p.text] = NormalizedPrefixOf[q.text] => p.ai = q.ai
    /\ \A i \in DOMAIN gen_log : CallsFor(gen_log[i].text) = {i}

\* C2 amended: requests with the same normalized 120-character prefix get the
\* same explanation, and the generator returns at most once for it: every call
\* for the prefix before the last one failed.
C2_ReturnsAtMostOnce ==
    /\ \A p, q \in served :
         NormalizedPrefixOf[p.text] = NormalizedPrefixOf[q.text] => p.ai = q.ai
    /\ \A i \in DOMAIN gen_log :
         \A j \in CallsFor(gen_log[i].text) : j < i => gen_log[j].out.raised

\* a second text with the same first 120 characters is served from the cache
C2_Witness ==
    /\ HasResult
    /\ last.gen_calls = <<>>
    /\ Len(gen_log) = 1
    /\ gen_log[1].text = Prefix(last.got.value, PrefixLen)
    /\ gen_log[1].reasons # response.result.reasons

\* the resolved text of the request in (req, did) is blank: a blank or absent
\* field and no image, or an image the OCR service reads as nothing or whitespace
BlankSubmission(req, did) ==
    /\ req.method = "POST"
    /\ IsBlank(FormGet(req.form, "job_text"))
    /\ \/ ~UsableImage(req.files)
       \/ /\ did.got.ocr_calls # <<>>
          /\ did.got.ocr_calls[1].status = "ok"
          /\ LET data == did.got.ocr_calls[1].json IN
             \/ NoParsedResults(data)
             \/ HasParsedText(data) /\ IsBlank(data.ParsedResults[1].ParsedText)

\* C3: a POST whose resolved text is blank ends with the error "No text
\* detected from input." and no result; the scorer and the generator are not
\* run and the cache is unchanged.
C3_BlankTextIsAnError ==
    [][ BlankSubmission(request', last') =>
          /\ response' = Page(None, "No text detected from input.")
          /\ last'.analysis = None
          /\ last'.gen_calls = <<>>
          /\ gen_log' = gen_log
          /\ ai_cache' = ai_cache ]_vars

\* an image read as whitespace, after the cache was filled
C3_Witness ==
    /\ OcrCalled
    /\ BlankSubmission(request, last)
    /\ HasParsedText(last.got.ocr_calls[1].json)
    /\ response.error = "No text detected from input."
    /\ DOMAIN ai_cache # {}

\* the OCR call of the request failed: no response, or one without the text
OcrFailed(did) ==
    /\ did.got # None
    /\ did.got.ocr_calls # <<>>
    /\ \/ did.got.ocr_calls[1].status = "fail"
       \/ /\ did.got.ocr_calls[1].status = "ok"
          /\ ~NoParsedResults(did.got.ocr_calls[1].json)
          /\ ~HasParsedText(did.got.ocr_calls[1].json)

GeneratorFailed(did) == did.gen_calls # <<>> /\ did.gen_calls[1].status = "fail"

\* C4: when the OCR call or the generator call of a POST fails, the request
\* ends as a server error with no result and no error message, the failed
\* call is not repeated, and the cache is as it was: nothing is stored for the
\* failed key.
C4_NoPartialResults ==
    [][ (OcrFailed(last') \/ GeneratorFailed(last')) =>
          /\ response' = ServerError
          /\ Len(last'.got.ocr_calls) <= 1
          /\ Len(last'.gen_calls) <= 1
          /\ Len(gen_log') = Len(gen_log) + Len(last'.gen_calls)
          /\ ai_cache' = ai_cache
          /\ served' = served
          /\ GeneratorFailed(last') => last'.analysis.key \notin DOMAIN ai_cache' ]_vars

\* the generator failed on a request while the cache held another entry
C4_Witness ==
    /\ GeneratorFailed(last)
    /\ response = ServerError
    /\ DOMAIN ai_cache # {}

\* C5: on every result, reasons holds exactly the listed phrases that occur
\* in the text, in the order of the list, each once, and the score that chose
\* the tier is the length of reasons.
C5_ReasonsInListOrder ==
    HasResult =>
        LET r == response.result.reasons
            m == MatchingOf[last.got.value]
        IN  /\ Len(r) = Cardinality(m)
            /\ \A k \in m : \E i \in 1..Len(r) : r[i] = suspicious_phrases[k]
            /\ \A i, j \in 1..Len(r) :
                 i < j => \E k, l \in m : /\ k < l
                                          /\ r[i] = suspicious_phrases[k]
                                          /\ r[j] = suspicious_phrases[l]
            /\ last.analysis.score = Len(r)
            /\ response.result.risk = RiskOf(Len(r)).risk

\* three phrases that are not neighbours in the list, the last of the list among them
C5_Witness ==
    /\ HasResult
    /\ response.result.reasons = <<"deposit", "pay", "telegram">>

\* C6: in every state reached by interleaved requests, each cache entry is the
\* whole output of a generator call made for its key, and every request that
\* has returned a result returned the output of a generator call made for its
\* own key.
C6_BenignRace ==
    /\ \A k \in DOMAIN ai_cache :
         \E i \in DOMAIN gen_log : gen_log[i].key = k /\ gen_log[i].out = Return(ai_cache[k])
    /\ \A t \in Threads :
         (pc[t] = "done" /\ loc[t].response.result # None) =>
             \E i \in DOMAIN gen_log :
                 /\ gen_log[i].key = loc[t].analysis.key
                 /\ gen_log[i].out = Return(loc[t].response.result.ai)

\* two calls for one key, and a request that returned the other thread's output
C6_Witness ==
    \E t \in Threads :
        /\ pc[t] = "done"
        /\ loc[t].response.result # None
        /\ loc[t].out # None
        /\ loc[t].response.result.ai # loc[t].out.value
        /\ Cardinality({i \in DOMAIN gen_log : gen_log[i].key = loc[t].analysis.key}) = 2

\* C7 as stated: the extractor returns the first parsed text lower-cased, and
\* the empty string when ParsedResults is missing or empty or its first
\* element has no ParsedText.
C7_EmptyWheneverNoText ==
    (OcrCalled /\ last.got.ocr_calls[1].status = "ok") =>
        LET data == last.got.ocr_calls[1].json IN
        /\ ~last.got.raised
        /\ IF HasParsedText(data)
           THEN IsLowerOf(last.got.value, data.ParsedResults[1].ParsedText)
           ELSE last.got.value = ""

\* C7 amended: the extractor returns the first parsed text lower-cased, the
\* empty string when ParsedResults is missing or empty, and fails when the
\* first element has no ParsedText.
C7_EmptyWhenNoResults ==
    (OcrCalled /\ last.got.ocr_calls[1].status = "ok") =>
        LET data == last.got.ocr_calls[1].json IN
        IF HasParsedText(data)
        THEN ~last.got.raised /\ IsLowerOf(last.got.value, data.ParsedResults[1].ParsedText)
        ELSE IF NoParsedResults(data)
        THEN ~last.got.raised /\ last.got.value = ""
        ELSE last.got.raised

\* a response with two parsed results whose first text has upper-case letters
C7_Witness ==
    /\ OcrCalled
    /\ last.got.ocr_calls[1].status = "ok"
    /\ HasParsedText(last.got.ocr_calls[1].json)
    /\ Len(last.got.ocr_calls[1].json.ParsedResults) = 2
    /\ ~last.got.raised
    /\ last.got.value # last.got.ocr_calls[1].json.ParsedResults[1].ParsedText

\* C8: on a POST with a non-blank text field the text is the field trimmed
\* and lower-cased and the extractor is not called, image or not; the
\* extractor is called only for a blank or absent field with an image that
\* has a filename, and once at most.
C8_TextFieldFirst ==
    (request # None /\ request.method = "POST") =>
        LET field == FormGet(request.form, "job_text") IN
        /\ ~IsBlank(field) =>
              /\ ~last.got.raised
              /\ last.got.ocr_calls = <<>>
              /\ <<field, last.got.value>> \in TrimmedLoweredPairs
        /\ last.got.ocr_calls # <<>> => IsBlank(field) /\ UsableImage(request.files)
        /\ Len(last.got.ocr_calls) <= 1

\* text and an image posted together
C8_Witness ==
    /\ HasResult
    /\ request.method = "POST"
    /\ UsableImage(request.files)
    /\ last.got.ocr_calls = <<>>
    /\ last.got.value # FormGet(request.form, "job_text")

\* C9: a request never removes a cache entry nor replaces its explanation,
\* and adds one entry at most, only when it is a POST that ends in a result.
C9_CacheOnlyGrows ==
    [][ /\ \A k \in DOMAIN ai_cache : k \in DOMAIN ai_cache' /\ ai_cache'[k] = ai_cache[k]
        /\ Cardinality(DOMAIN ai_cache') <= Cardinality(DOMAIN ai_cache) + 1
        /\ DOMAIN ai_cache' # DOMAIN ai_cache =>
              /\ request'.method = "POST"
              /\ response'.kind = "page"
              /\ response'.result # None ]_vars

\* two entries, the second added after the first
C9_Witness ==
    /\ Cardinality(DOMAIN ai_cache) = 2
    /\ HasResult
    /\ last.gen_calls # <<>>

\* C10 as stated: the explanation of every result was generated by a call
\* whose risk label and reasons are those of the result.
C10_ExplanationMatchesResult ==
    HasResult =>
        \E i \in DOMAIN gen_log :
            /\ gen_log[i].out = Return(response.result.ai)
            /\ gen_log[i].risk = response.result.risk
            /\ gen_log[i].reasons = response.result.reasons

=============================================================================
